---- MODULE Spec2Model ----
(***************************************************************************)
(* A model of the blur crate: the Gaussian kernel generator, the per-pixel *)
(* convolution, the sequential path (blur_sync), the thread pool           *)
(* (threadpool.rs) and the parallel orchestrator (blur_async).             *)
(*                                                                         *)
(* f64 arithmetic is modelled bit-exactly (IEEE-754 binary64, round to     *)
(* nearest, ties to even) on the values the model reaches: a number is     *)
(* m * 2^e with a 53-bit significand m, kept as a little-endian sequence   *)
(* of 15-bit limbs because model-checker integers are 32 bits wide.        *)
(***************************************************************************)
EXTENDS Integers, Sequences, FiniteSets, TLC

(***************************************************************************)
(* Natural numbers of arbitrary size: little-endian limbs, no leading zero *)
(* limb, zero is the empty sequence.                                       *)
(***************************************************************************)
LimbBits == 5 * 3
Base == 2 ^ LimbBits

RECURSIVE Pow2(_)
Pow2(n) == IF n = 0 THEN 1 ELSE 2 * Pow2(n - 1)

RECURSIVE BNorm(_)
BNorm(a) ==
    IF a = <<>> THEN a
    ELSE IF a[Len(a)] = 0 THEN BNorm(SubSeq(a, 1, Len(a) - 1)) ELSE a

RECURSIVE BFromInt(_)
BFromInt(n) == IF n = 0 THEN <<>> ELSE <<n % Base>> \o BFromInt(n \div Base)

RECURSIVE BToInt(_)
BToInt(a) == IF a = <<>> THEN 0 ELSE Head(a) + Base * BToInt(Tail(a))

RECURSIVE BAddC(_, _, _)
BAddC(a, b, c) ==
    IF a = <<>> /\ b = <<>> THEN (IF c = 0 THEN <<>> ELSE <<c>>)
    ELSE LET x == IF a = <<>> THEN 0 ELSE Head(a)
             y == IF b = <<>> THEN 0 ELSE Head(b)
             s == x + y + c
         IN  <<s % Base>> \o BAddC(IF a = <<>> THEN a ELSE Tail(a),
                                   IF b = <<>> THEN b ELSE Tail(b),
                                   s \div Base)

BAdd(a, b) == BAddC(a, b, 0)

\* a - b for a >= b, limb by limb with a borrow
RECURSIVE BSubC(_, _, _)
BSubC(a, b, c) ==
    IF a = <<>> THEN <<>>
    ELSE LET y == IF b = <<>> THEN 0 ELSE Head(b)
             d == Head(a) - y - c
         IN  <<d % Base>> \o BSubC(Tail(a),
                                   IF b = <<>> THEN b ELSE Tail(b),
                                   IF d < 0 THEN 1 ELSE 0)

BSub(a, b) == BNorm(BSubC(a, b, 0))

\* -1, 0 or 1 as a < b, a = b or a > b
RECURSIVE BCmpFrom(_, _, _)
BCmpFrom(a, b, i) ==
    IF i = 0 THEN 0
    ELSE IF a[i] < b[i] THEN -1
    ELSE IF a[i] > b[i] THEN 1
    ELSE BCmpFrom(a, b, i - 1)

BCmp(a, b) ==
    IF Len(a) < Len(b) THEN -1
    ELSE IF Len(a) > Len(b) THEN 1
    ELSE BCmpFrom(a, b, Len(a))

\* a * k for 0 <= k < Base
RECURSIVE BMulSmallC(_, _, _)
BMulSmallC(a, k, c) ==
    IF a = <<>> THEN (IF c = 0 THEN <<>> ELSE <<c>>)
    ELSE LET p == Head(a) * k + c
         IN  <<p % Base>> \o BMulSmallC(Tail(a), k, p \div Base)

BMulSmall(a, k) == IF k = 0 THEN <<>> ELSE BMulSmallC(a, k, 0)

RECURSIVE BMul(_, _)
BMul(a, b) ==
    IF b = <<>> \/ a = <<>> THEN <<>>
    ELSE LET rest == BMul(a, Tail(b))
         IN  BAdd(BMulSmall(a, Head(b)),
                  IF rest = <<>> THEN rest ELSE <<0>> \o rest)

\* floor(a / k) for 0 < k <= Base, from the most significant limb down
RECURSIVE BDivSmallR(_, _, _, _)
BDivSmallR(a, k, i, r) ==
    IF i = 0 THEN <<>>
    ELSE LET cur == r * Base + a[i]
         IN  BDivSmallR(a, k, i - 1, cur % k) \o <<cur \div k>>

BDivSmall(a, k) == BNorm(BDivSmallR(a, k, Len(a), 0))

RECURSIVE Zeros(_)
Zeros(n) == IF n = 0 THEN <<>> ELSE <<0>> \o Zeros(n - 1)

\* a * 2^n
BShl(a, n) ==
    IF a = <<>> THEN a
    ELSE Zeros(n \div LimbBits) \o BMulSmall(a, Pow2(n % LimbBits))

\* floor(a / 2^n)
BShr(a, n) ==
    IF n \div LimbBits >= Len(a) THEN <<>>
    ELSE BDivSmall(SubSeq(a, n \div LimbBits + 1, Len(a)), Pow2(n % LimbBits))

RECURSIVE IntBitLen(_)
IntBitLen(n) == IF n = 0 THEN 0 ELSE 1 + IntBitLen(n \div 2)

BBitLen(a) ==
    IF a = <<>> THEN 0 ELSE LimbBits * (Len(a) - 1) + IntBitLen(a[Len(a)])

BOdd(a) == a # <<>> /\ Head(a) % 2 = 1

(***************************************************************************)
(* f64.  k is "num" (zero or a normal number m * 2^e with m of exactly     *)
(* Precision bits), "inf" or "nan".  Only non-negative numbers occur: the  *)
(* one negative quantity of the program, the argument of exp, is kept as   *)
(* its magnitude (see gaussian).                                           *)
(***************************************************************************)
Precision == 53

NaN == [k |-> "nan", m |-> <<>>, e |-> 0]
Inf == [k |-> "inf", m |-> <<>>, e |-> 0]
Zero == [k |-> "num", m |-> <<>>, e |-> 0]

IsZero(a) == a.k = "num" /\ a.m = <<>>

\* m * 2^e rounded to Precision bits, ties to even; sticky says that the exact
\* value lies strictly above m * 2^e (bits lost by a division)
FRound(m, e, sticky) ==
    LET len == BBitLen(m) IN
    IF m = <<>> THEN Zero
    ELSE IF len <= Precision
    THEN [k |-> "num", m |-> BShl(m, Precision - len), e |-> e - (Precision - len)]
    ELSE LET s    == len - Precision
             q    == BShr(m, s)
             rem  == BSub(m, BShl(q, s))
             half == BShl(<<1>>, s - 1)
             c    == BCmp(rem, half)
             up   == c > 0 \/ (c = 0 /\ (sticky \/ BOdd(q)))
             q1   == IF up THEN BAdd(q, <<1>>) ELSE q
         IN  IF BBitLen(q1) > Precision
             THEN [k |-> "num", m |-> BShr(q1, 1), e |-> e + s + 1]
             ELSE [k |-> "num", m |-> q1, e |-> e + s]

\* `v as f64` for an integer v >= 0
FFromInt(v) == FRound(BFromInt(v), 0, FALSE)

FMul(a, b) ==
    IF a.k = "nan" \/ b.k = "nan" THEN NaN
    ELSE IF a.k = "inf" \/ b.k = "inf"
    THEN (IF IsZero(a) \/ IsZero(b) THEN NaN ELSE Inf)
    ELSE FRound(BMul(a.m, b.m), a.e + b.e, FALSE)

FAdd(a, b) ==
    IF a.k = "nan" \/ b.k = "nan" THEN NaN
    ELSE IF a.k = "inf" \/ b.k = "inf" THEN Inf
    ELSE IF IsZero(a) THEN b
    ELSE IF IsZero(b) THEN a
    ELSE LET e == IF a.e < b.e THEN a.e ELSE b.e
         IN  FRound(BAdd(BShl(a.m, a.e - e), BShl(b.m, b.e - e)), e, FALSE)

\* One limb of a quotient: for r < d, <<q, r2>> with r * 2^i = q * d + r2
\* (q starts at 0), one bit at a time
RECURSIVE DivLimb(_, _, _, _)
DivLimb(q, r, d, i) ==
    IF i = 0 THEN <<q, r>>
    ELSE LET r2 == BAdd(r, r)
         IN  IF BCmp(r2, d) >= 0
             THEN DivLimb(2 * q + 1, BSub(r2, d), d, i - 1)
             ELSE DivLimb(2 * q, r2, d, i - 1)

\* n limbs of the quotient below the point: <<limbs (little-endian), remainder>>
RECURSIVE DivLimbs(_, _, _)
DivLimbs(r, d, n) ==
    IF n = 0 THEN <<(<<>>), r>>
    ELSE LET one  == DivLimb(0, r, d, LimbBits)
             rest == DivLimbs(one[2], d, n - 1)
         IN  <<rest[1] \o <<one[1]>>, rest[2]>>

\* limbs of quotient computed below the first bit: more than Precision + 2 bits
QuotLimbs == (Precision + LimbBits - 1) \div LimbBits

FDiv(a, b) ==
    IF a.k = "nan" \/ b.k = "nan" THEN NaN
    ELSE IF a.k = "inf" THEN (IF b.k = "inf" THEN NaN ELSE Inf)
    ELSE IF b.k = "inf" THEN Zero
    ELSE IF IsZero(b) THEN (IF IsZero(a) THEN NaN ELSE Inf)
    ELSE IF IsZero(a) THEN Zero
    ELSE LET ge   == BCmp(a.m, b.m) >= 0
             frac == DivLimbs(IF ge THEN BSub(a.m, b.m) ELSE a.m, b.m, QuotLimbs)
             q    == BNorm(frac[1] \o <<IF ge THEN 1 ELSE 0>>)
         IN  FRound(q, a.e - b.e - QuotLimbs * LimbBits, frac[2] # <<>>)

U8Max == 255

\* `f as u8`: truncation toward zero, saturating, NaN to 0
AsU8(a) ==
    IF a.k = "nan" THEN 0
    ELSE IF a.k = "inf" THEN U8Max
    ELSE IF IsZero(a) THEN 0
    ELSE IF a.e >= 0 THEN U8Max
    ELSE LET t == BShr(a.m, -a.e)
         IN  IF BCmp(t, BFromInt(U8Max)) > 0 THEN U8Max ELSE BToInt(t)

(***************************************************************************)
(* u32 and i32.  The model's integers end at 2^31 - 1: a u32 that may pass *)
(* that is a limb number.                                                  *)
(***************************************************************************)
U32Bits == 32
I32Max == 2147483647

\* `v as i32` for a u32 v given by its limbs: the same 32 bits, read as signed
AsI32(v) ==
    IF BCmp(v, BFromInt(I32Max)) > 0
    THEN -1 - BToInt(BSub(BSub(BShl(BFromInt(1), U32Bits), v), BFromInt(1)))
    ELSE BToInt(v)

\* width as u128 * height as u128 (lib.rs 236): the exact product
n_calculations(width, height) == BMul(BFromInt(width), BFromInt(height))

\* width * height in u32 (lib.rs 271), given the exact product: does it
\* overflow, and what is left of it when it wraps
U32Mul(width, height) ==
    LET exact == n_calculations(width, height)
        high  == BShr(exact, U32Bits)
    IN  [overflow |-> high # <<>>,
         wrapped  |-> BSub(exact, BShl(high, U32Bits))]

\* the exact product width * height is below 2^31: it fits the model's
\* integers, and a u32
FitsInt(width, height) == height = 0 \/ width <= I32Max \div height

\* `counter == width * height` (lib.rs 271), a u32 product: the multiplication
\* panics where it overflows and overflow is checked, else the test is made
\* with the wrapped product
ExitTest(count, width, height, checks) ==
    IF FitsInt(width, height)
    THEN (IF count = width * height THEN "break" ELSE "continue")
    ELSE LET product == U32Mul(width, height)
         IN  IF checks /\ product.overflow THEN "panic"
             ELSE IF BFromInt(count) = product.wrapped THEN "break"
             ELSE "continue"

\* counter as u128 * 100 / n_calculations (lib.rs 275)
Percent(count, width, height) ==
    IF FitsInt(width, height)
    THEN (count * 100) \div (width * height)
    ELSE LET n == n_calculations(width, height)
         IN  IF BCmp(n, BFromInt(count * 100)) > 0 THEN 0
             ELSE (count * 100) \div BToInt(n)

\* RgbImage::width() and height(), as limbs.  A raster record holds them as
\* integers in width and height; a raster with a dimension of 2^31 or more
\* holds them as limbs in width32 and height32.
WidthOf(img) ==
    IF "width32" \in DOMAIN img THEN img.width32 ELSE BFromInt(img.width)
HeightOf(img) ==
    IF "height32" \in DOMAIN img THEN img.height32 ELSE BFromInt(img.height)

F64(l0, l1, l2, l3, e) == [k |-> "num", m |-> <<l0, l1, l2, l3>>, e |-> e]

One == F64(0, 0, 0, 128, -52)
Two == F64(0, 0, 0, 128, -51)
\* std::f64::consts::PI = 0x1.921fb54442d18p+1
PI == F64(11544, 10376, 2029, 201, -51)

\* the values of sigma the model draws: 1.0, 10.0 (the command line's default)
\* and 0.0, which nothing in the program rejects
Sigma1 == F64(0, 0, 0, 128, -52)
Sigma10 == F64(0, 0, 0, 160, -49)
SigmaSet == {Sigma1, Sigma10, Zero}

(***************************************************************************)
(* f64::exp on the arguments the model reaches, exp(-t) for t >= 0: the    *)
(* correctly rounded values, which are the ones libm returns there.        *)
(***************************************************************************)
ExpNeg(t) ==
    CASE t.k = "nan" -> NaN
      [] t.k = "inf" -> Zero
      [] IsZero(t) -> One
      [] t = F64(0, 0, 0, 128, -53) -> F64(5642, 30943, 8907, 155, -53)     \* exp(-0.5)
      [] t = F64(0, 0, 0, 128, -52) -> F64(28472, 27737, 11608, 188, -54)   \* exp(-1.0)
      [] t = F64(0, 0, 0, 128, -51) -> F64(460, 18303, 19114, 138, -55)     \* exp(-2.0)
      [] t = F64(0, 0, 0, 160, -51) -> F64(29733, 297, 3607, 168, -56)      \* exp(-2.5)
      [] t = F64(0, 0, 0, 128, -50) -> F64(15604, 28738, 1366, 150, -58)    \* exp(-4.0)
      [] t = F64(0, 0, 0, 128, -38) -> Zero                                 \* exp(-16384.0)
      [] t = F64(5243, 3932, 27525, 163, -60) -> F64(21131, 21071, 23697, 254, -53)  \* exp(-0.005)
      [] t = F64(5243, 3932, 27525, 163, -59) -> F64(7422, 31319, 14835, 253, -53)   \* exp(-0.01)
      [] t = F64(5243, 3932, 27525, 163, -58) -> F64(27739, 14171, 30502, 250, -53)  \* exp(-0.02)
      [] t = F64(6554, 13107, 26214, 204, -58) -> F64(2780, 17384, 22260, 249, -53)  \* exp(-0.025)
      [] t = F64(5243, 3932, 27525, 163, -57) -> F64(2957, 31968, 31525, 245, -53)   \* exp(-0.04)
      [] t = F64(5243, 3932, 27525, 163, -45) -> F64(11570, 10297, 30465, 197, -289) \* exp(-163.84)

(***************************************************************************)
(* lib.rs: the kernel generator and the pixel convolver                    *)
(***************************************************************************)

\* fn gaussian(x: i32, y: i32, sigma: f64) -> f64
\*   (-(x.pow(2) + y.pow(2)) as f64 / (2.0 * sigma * sigma)).exp()
\*       / (2.0 * PI * sigma * sigma)
\* The argument of exp is -(x^2 + y^2) / (2 sigma^2); ExpNeg takes its magnitude.
gaussian(x, y, sigma) ==
    FDiv(ExpNeg(FDiv(FFromInt(x * x + y * y), FMul(FMul(Two, sigma), sigma))),
         FMul(FMul(FMul(Two, PI), sigma), sigma))

\* u8 arithmetic: a build with overflow checks (debug, test) panics on overflow,
\* a build without (release) wraps modulo 2^8
U8Wrap(n) == n % (U8Max + 1)

\* fn get_gaussian_matrix(radius: u8, sigma: f64) -> Grid<f64>
\* `let width = radius * 2 + 1;` is computed in u8.
get_gaussian_matrix(radius, sigma, overflow_checks) ==
    IF overflow_checks /\ (radius * 2 > U8Max \/ radius * 2 + 1 > U8Max)
    THEN [ok |-> FALSE, rows |-> 0, cols |-> 0, cells |-> <<>>]
    ELSE LET width == U8Wrap(U8Wrap(radius * 2) + 1)
         IN  [ok    |-> TRUE,
              rows  |-> width,
              cols  |-> width,
              cells |-> [c \in (0 .. width - 1) \X (0 .. width - 1) |->
                           gaussian(c[1] - radius, c[2] - radius, sigma)]]

\* the accumulators r, g, b, total of calculate_new_pixel after the first n
\* iterations of its loops (i outer, k inner)
RECURSIVE Accumulate(_, _, _, _, _)
Accumulate(x, y, matrix, original_img, n) ==
    IF n = 0 THEN [r |-> Zero, g |-> Zero, b |-> Zero, total |-> Zero]
    ELSE LET acc    == Accumulate(x, y, matrix, original_img, n - 1)
             i      == (n - 1) \div matrix.cols
             k      == (n - 1) % matrix.cols
             radius == matrix.rows \div 2
             sx     == x + i - radius
             sy     == y + k - radius
         IN  IF sx < 0 \/ sy < 0 \/ sx >= AsI32(WidthOf(original_img))
                \/ sy >= AsI32(HeightOf(original_img))
             THEN acc
             ELSE LET pixel == original_img.px[<<sx, sy>>]
                      el    == matrix.cells[<<i, k>>]
                  IN  [r     |-> FAdd(acc.r, FMul(FFromInt(pixel[1]), el)),
                       g     |-> FAdd(acc.g, FMul(FFromInt(pixel[2]), el)),
                       b     |-> FAdd(acc.b, FMul(FFromInt(pixel[3]), el)),
                       total |-> FAdd(acc.total, el)]

\* fn calculate_new_pixel(x: i32, y: i32, matrix: &Grid<f64>, original_img: &RgbImage) -> Rgb<u8>
calculate_new_pixel(x, y, matrix, original_img) ==
    LET acc == Accumulate(x, y, matrix, original_img, matrix.rows * matrix.cols)
    IN  <<AsU8(FDiv(acc.r, acc.total)),
          AsU8(FDiv(acc.g, acc.total)),
          AsU8(FDiv(acc.b, acc.total))>>

(***************************************************************************)
(* Rasters.  An RgbImage is its width, its height and a pixel (three u8    *)
(* channels) per coordinate <<x, y>>.                                      *)
(***************************************************************************)
Coords(width, height) == (0 .. width - 1) \X (0 .. height - 1)

\* ImageBuffer::new(width, height): every channel zero
NewImageBuffer(width, height) ==
    [width |-> width, height |-> height,
     px |-> [c \in Coords(width, height) |-> <<0, 0, 0>>]]

\* the n-th coordinate (from 0) that enumerate_pixels yields: row by row
PixelAt(n, width) == <<n % width, n \div width>>

\* pub fn blur_sync(radius: u8, sigma: f64, original_img: RgbImage)
blur_sync(radius, sigma, original_img, overflow_checks) ==
    LET m == get_gaussian_matrix(radius, sigma, overflow_checks)
    IN  IF ~m.ok THEN [ok |-> FALSE, img |-> NewImageBuffer(0, 0)]
        ELSE [ok  |-> TRUE,
              img |-> [width  |-> original_img.width,
                       height |-> original_img.height,
                       px     |-> [c \in DOMAIN original_img.px |->
                                     calculate_new_pixel(c[1], c[2], m, original_img)]]]

(***************************************************************************)
(* Bounds of the model and the inputs drawn within them                    *)
(***************************************************************************)
MaxW == 2
MaxH == 2
MaxRadius == 1
MaxThreads == 2
MaxJobs == 3
MaxPixels == 4

Palette == << <<13, 49, 255>>, <<0, 0, 0>>, <<255, 255, 255>>, <<200, 100, 50>> >>

\* a source raster whose neighbouring pixels differ
TestImage(width, height) ==
    [width |-> width, height |-> height,
     px |-> [c \in Coords(width, height) |->
               Palette[((c[1] + 2 * c[2]) % Len(Palette)) + 1]]]

Images == {TestImage(w, h) : w \in 1 .. MaxW, h \in 1 .. MaxH}

\* the rasters given to blur_async: one job per pixel, at most MaxPixels jobs
AsyncImages == {i \in Images : i.width * i.height <= MaxPixels}

\* the smallest radius whose kernel width 2 * radius + 1 does not fit a u8
WrapRadius == (U8Max + 1) \div 2

AllCoordsOf(img) == Coords(img.width, img.height)

VARIABLES
    radius, sigma, n_threads, original_img, \* the arguments of the call
    overflow_checks,  \* the build: TRUE panics on integer overflow, FALSE wraps
    pc,               \* where the calling thread is
    m,                \* the kernel
    img_buf,          \* the output raster
    it,               \* jobs submitted / pixels visited by the caller's for loop
    counter, last,    \* blur_async's collection loop
    progress,         \* the percentages printed by the collection loop, in order
    res_chan,         \* the result channel (tx, rx): results sent, not yet received
    rx_alive,         \* the result channel's receiver has not been dropped
    pool_tx,          \* ThreadPool.tx is Some
    jobq,             \* the job channel: jobs sent, not yet received
    mutex,            \* the worker holding the Mutex around the job receiver, or 0
    wpc, wjob,        \* per worker: its position and the job it runs
    handle,           \* per worker: Worker.thread is Some
    drop_pc, drop_i,  \* Drop for ThreadPool: its position and the worker it joins
    pixel_of,         \* per coordinate, the value the job of that coordinate computes
    kinds,            \* per job submitted (by id): what its closure does
    taken, finished,  \* per job submitted: times dequeued, times run to the end
    writes,           \* per coordinate: times img_buf was written there
    at_close          \* the pool as Drop found it: jobs queued, mutex holder, idle workers

vars == <<radius, sigma, n_threads, original_img, overflow_checks, pc, m, img_buf,
          it, counter, last, progress, res_chan, rx_alive, pool_tx, jobq, mutex,
          wpc, wjob, handle, drop_pc, drop_i, pixel_of, kinds, taken, finished,
          writes, at_close>>

inputs == <<radius, sigma, n_threads, original_img, overflow_checks>>
caller == <<pc, m, img_buf, it, counter, last, progress, pixel_of, writes>>
pool   == <<pool_tx, jobq, mutex, wpc, wjob, handle, drop_pc, drop_i, kinds,
            taken, finished, at_close>>
chan   == <<res_chan, rx_alive>>

NoKernel == [ok |-> FALSE, rows |-> 0, cols |-> 0, cells |-> <<>>]
NotClosed == [queued |-> 0, holder |-> 0, idle |-> 0]
NoJob == [id |-> 0, kind |-> "none", x |-> 0, y |-> 0]
Workers == 1 .. n_threads
NPixels == original_img.width * original_img.height

\* what every specification starts from, besides its inputs and pc
Blank ==
    /\ m = NoKernel
    /\ img_buf = NewImageBuffer(0, 0)
    /\ it = 0
    /\ counter = 0
    /\ last = 0
    /\ progress = <<>>
    /\ res_chan = <<>>
    /\ rx_alive = FALSE
    /\ pool_tx = FALSE
    /\ jobq = <<>>
    /\ mutex = 0
    /\ wpc = <<>>
    /\ wjob = <<>>
    /\ handle = <<>>
    /\ drop_pc = "none"
    /\ drop_i = 0
    /\ pixel_of = <<>>
    /\ kinds = <<>>
    /\ taken = <<>>
    /\ finished = <<>>
    /\ writes = <<>>
    /\ at_close = NotClosed

(***************************************************************************)
(* The sequential path, blur_sync, step by step                            *)
(***************************************************************************)
InitSync ==
    /\ radius \in (0 .. MaxRadius) \cup {WrapRadius}
    /\ sigma \in SigmaSet
    /\ n_threads = 0
    /\ original_img \in Images
    /\ overflow_checks \in BOOLEAN
    /\ pc = "sync_start"
    /\ Blank

\* lib.rs 314-322: the kernel, then the output raster
SyncStart ==
    /\ pc = "sync_start"
    /\ LET kernel == get_gaussian_matrix(radius, sigma, overflow_checks)
       IN  IF ~kernel.ok
           THEN /\ pc' = "panicked"
                /\ UNCHANGED <<m, img_buf, writes>>
           ELSE /\ pc' = "sync_loop"
                /\ m' = kernel
                /\ img_buf' = NewImageBuffer(original_img.width, original_img.height)
                /\ writes' = [c \in Coords(original_img.width, original_img.height) |-> 0]
    /\ UNCHANGED <<inputs, it, counter, last, progress, pixel_of,
                   pool, chan>>

\* lib.rs 324-326: one iteration of the loop over enumerate_pixels_mut
SyncPixel ==
    /\ pc = "sync_loop"
    /\ it < NPixels
    /\ LET c == PixelAt(it, original_img.width)
       IN  /\ img_buf' = [img_buf EXCEPT !.px[c] =
                             calculate_new_pixel(c[1], c[2], m, original_img)]
           /\ writes' = [writes EXCEPT ![c] = @ + 1]
    /\ it' = it + 1
    /\ UNCHANGED <<inputs, pc, m, counter, last, progress, pixel_of,
                   pool, chan>>

\* lib.rs 328: the loop is over, img_buf is returned
SyncReturn ==
    /\ pc = "sync_loop"
    /\ it = NPixels
    /\ pc' = "sync_returned"
    /\ UNCHANGED <<inputs, m, img_buf, it, counter, last, progress, pixel_of,
                   writes, pool, chan>>

NextSync == SyncStart \/ SyncPixel \/ SyncReturn

SpecSync == InitSync /\ [][NextSync]_vars
(***************************************************************************)
(* threadpool.rs                                                           *)
(***************************************************************************)

\* A pool that kept a handle of its own on the job receiver: sends would never fail.
JobRxKeptByPool == TRUE

\* The job channel's Receiver lives in an Arc<Mutex<Receiver<Job>>>: ThreadPool::new
\* drops its own Arc when it returns, and each worker thread holds a clone until
\* the thread ends, so the receiver is dropped with the last live worker (at
\* once when n_workers = 0).
JobRxAlive == \E w \in DOMAIN wpc : wpc[w] \in {"idle", "recv", "run"}

\* ThreadPool::new(n_workers), threadpool.rs 11-25: the channel and the workers
PoolNew(n_workers) ==
    /\ pool_tx' = TRUE
    /\ jobq' = <<>>
    /\ mutex' = 0
    /\ wpc' = [w \in 1 .. n_workers |-> "idle"]
    /\ wjob' = [w \in 1 .. n_workers |-> NoJob]
    /\ handle' = [w \in 1 .. n_workers |-> TRUE]

\* ThreadPool::execute(f), threadpool.rs 27-31, as a step of the calling thread:
\* sent, or panicked (send fails once the receiver is gone, and is unwrapped), or
\* nothing at all when tx is None
Execute(job, panicked) ==
    IF pool_tx /\ JobRxAlive
    THEN /\ ~panicked
         /\ jobq' = Append(jobq, job)
         /\ kinds' = Append(kinds, job.kind)
         /\ taken' = Append(taken, 0)
         /\ finished' = Append(finished, 0)
    ELSE /\ panicked = pool_tx
         /\ UNCHANGED <<jobq, kinds, taken, finished>>

\* Worker::new's thread, threadpool.rs 56: rx.lock().unwrap() (the mutex is never
\* poisoned: no thread panics while it holds the guard)
WLock(w) ==
    /\ w \in DOMAIN wpc
    /\ wpc[w] = "idle"
    /\ mutex = 0
    /\ mutex' = w
    /\ wpc' = [wpc EXCEPT ![w] = "recv"]
    /\ UNCHANGED <<inputs, caller, chan, pool_tx, jobq, wjob, handle, drop_pc,
                   drop_i, kinds, taken, finished, at_close>>

\* A worker that leaves as soon as the intake is closed, whatever is still queued.
WRecvDiscarding(w) ==
    /\ w \in DOMAIN wpc
    /\ wpc[w] = "recv"
    /\ \/ /\ jobq # <<>>
          /\ pool_tx
          /\ jobq' = Tail(jobq)
          /\ wjob' = [wjob EXCEPT ![w] = Head(jobq)]
          /\ taken' = [taken EXCEPT ![Head(jobq).id] = @ + 1]
          /\ wpc' = [wpc EXCEPT ![w] = "run"]
       \/ /\ ~pool_tx
          /\ wpc' = [wpc EXCEPT ![w] = "done"]
          /\ UNCHANGED <<jobq, wjob, taken>>
    /\ mutex' = 0
    /\ UNCHANGED <<inputs, caller, chan, pool_tx, handle, drop_pc, drop_i, kinds,
                   finished, at_close>>

\* A worker that reads the job at the head of the queue and leaves it there.
WRecvWithoutDequeue(w) ==
    /\ w \in DOMAIN wpc
    /\ wpc[w] = "recv"
    /\ \/ /\ jobq # <<>>
          /\ jobq' = jobq
          /\ wjob' = [wjob EXCEPT ![w] = Head(jobq)]
          /\ taken' = [taken EXCEPT ![Head(jobq).id] = @ + 1]
          /\ wpc' = [wpc EXCEPT ![w] = "run"]
       \/ /\ jobq = <<>>
          /\ ~pool_tx
          /\ wpc' = [wpc EXCEPT ![w] = "done"]
          /\ UNCHANGED <<jobq, wjob, taken>>
    /\ mutex' = 0
    /\ UNCHANGED <<inputs, caller, chan, pool_tx, handle, drop_pc, drop_i, kinds,
                   finished, at_close>>

\* A worker that keeps the guard while it runs the job it dequeued (as a
\* `while let Ok(job) = rx.lock().unwrap().recv()` loop would).
WRecvKeepingGuard(w) ==
    /\ w \in DOMAIN wpc
    /\ wpc[w] = "recv"
    /\ \/ /\ jobq # <<>>
          /\ jobq' = Tail(jobq)
          /\ wjob' = [wjob EXCEPT ![w] = Head(jobq)]
          /\ taken' = [taken EXCEPT ![Head(jobq).id] = @ + 1]
          /\ wpc' = [wpc EXCEPT ![w] = "run"]
          /\ mutex' = w
       \/ /\ jobq = <<>>
          /\ ~pool_tx
          /\ wpc' = [wpc EXCEPT ![w] = "done"]
          /\ mutex' = 0
          /\ UNCHANGED <<jobq, wjob, taken>>
    /\ UNCHANGED <<inputs, caller, chan, pool_tx, handle, drop_pc, drop_i, kinds,
                   finished, at_close>>

\* threadpool.rs 56-66: recv() under the guard, which is released at the end of
\* the statement; Ok(job) goes on to run it, Err (every sender dropped and the
\* queue empty) ends the loop and the thread
WRecv(w) ==
    /\ w \in DOMAIN wpc
    /\ wpc[w] = "recv"
    /\ \/ /\ jobq # <<>>
          /\ jobq' = Tail(jobq)
          /\ wjob' = [wjob EXCEPT ![w] = Head(jobq)]
          /\ taken' = [taken EXCEPT ![Head(jobq).id] = @ + 1]
          /\ wpc' = [wpc EXCEPT ![w] = "run"]
       \/ /\ jobq = <<>>
          /\ ~pool_tx
          /\ wpc' = [wpc EXCEPT ![w] = "done"]
          /\ UNCHANGED <<jobq, wjob, taken>>
    /\ mutex' = 0
    /\ UNCHANGED <<inputs, caller, chan, pool_tx, handle, drop_pc, drop_i, kinds,
                   finished, at_close>>

\* A worker thread without the loop: it ends after the first job it runs.
WRunThenExit(w) ==
    /\ w \in DOMAIN wpc
    /\ wpc[w] = "run"
    /\ LET job   == wjob[w]
           fails == \/ job.kind = "panic"
                    \/ job.kind = "pixel" /\ ~rx_alive
       IN  /\ wpc' = [wpc EXCEPT ![w] = IF fails THEN "panicked" ELSE "done"]
           /\ finished' = [finished EXCEPT ![job.id] = IF fails THEN @ ELSE @ + 1]
           /\ res_chan' = IF job.kind = "pixel" /\ rx_alive
                          THEN Append(res_chan,
                                      <<job.x, job.y, pixel_of[<<job.x, job.y>>]>>)
                          ELSE res_chan
    /\ wjob' = [wjob EXCEPT ![w] = NoJob]
    /\ UNCHANGED <<inputs, caller, rx_alive, pool_tx, jobq, mutex, handle, drop_pc,
                   drop_i, kinds, taken, at_close>>

\* threadpool.rs 60: job().  A pixel job is the closure of lib.rs 254-257: it
\* computes its pixel and sends it, unwrapping the send.  A panic in the job
\* unwinds the worker thread: nothing catches it.
WRun(w) ==
    /\ w \in DOMAIN wpc
    /\ wpc[w] = "run"
    /\ LET job   == wjob[w]
           fails == \/ job.kind = "panic"
                    \/ job.kind = "pixel" /\ ~rx_alive
       IN  /\ wpc' = [wpc EXCEPT ![w] = IF fails THEN "panicked" ELSE "idle"]
           /\ finished' = [finished EXCEPT ![job.id] = IF fails THEN @ ELSE @ + 1]
           /\ res_chan' = IF job.kind = "pixel" /\ rx_alive
                          THEN Append(res_chan,
                                      <<job.x, job.y, pixel_of[<<job.x, job.y>>]>>)
                          ELSE res_chan
    /\ wjob' = [wjob EXCEPT ![w] = NoJob]
    /\ UNCHANGED <<inputs, caller, rx_alive, pool_tx, jobq, mutex, handle, drop_pc,
                   drop_i, kinds, taken, at_close>>

\* Drop for ThreadPool, threadpool.rs 36: drop(self.tx.take())
DropClose ==
    /\ pc \in {"teardown", "unwind"}
    /\ drop_pc = "none"
    /\ pool_tx' = FALSE
    /\ drop_pc' = "join"
    /\ drop_i' = 1
    /\ at_close' = [queued |-> Len(jobq), holder |-> mutex,
                    idle   |-> Cardinality({w \in DOMAIN wpc : wpc[w] = "idle"})]
    /\ UNCHANGED <<inputs, caller, chan, jobq, mutex, wpc, wjob, handle, kinds,
                   taken, finished>>

\* threadpool.rs 38-41: an iteration of the loop over the workers, up to the
\* wait: worker.thread.take() leaves None in the worker; a worker without a
\* handle is passed over
DropTake ==
    /\ drop_pc = "join"
    /\ drop_i <= n_threads
    /\ IF ~handle[drop_i]
       THEN /\ drop_i' = drop_i + 1
            /\ UNCHANGED <<handle, drop_pc>>
       ELSE /\ handle' = [handle EXCEPT ![drop_i] = FALSE]
            /\ drop_pc' = "wait"
            /\ UNCHANGED drop_i
    /\ UNCHANGED <<inputs, caller, chan, pool_tx, jobq, mutex, wpc, wjob, kinds,
                   taken, finished, at_close>>

\* threadpool.rs 42: handle.join().unwrap().  join() waits for the thread to
\* end; a thread that panicked makes it Err, and the unwrap panics in turn.
DropJoin ==
    /\ drop_pc = "wait"
    /\ wpc[drop_i] \in {"done", "panicked"}
    /\ IF wpc[drop_i] = "done"
       THEN drop_i' = drop_i + 1 /\ drop_pc' = "join"
       ELSE drop_pc' = "panicked" /\ UNCHANGED drop_i
    /\ UNCHANGED <<inputs, caller, chan, pool_tx, jobq, mutex, wpc, wjob, handle,
                   kinds, taken, finished, at_close>>

\* threadpool.rs 45: the loop is over, drop returns
DropReturn ==
    /\ drop_pc = "join"
    /\ drop_i > n_threads
    /\ drop_pc' = "done"
    /\ UNCHANGED <<inputs, caller, chan, pool_tx, jobq, mutex, wpc, wjob, handle,
                   drop_i, kinds, taken, finished, at_close>>

\* The caller once the pool's drop is over: the remaining locals are dropped
\* (the result channel's receiver among them).  Leaving the scope normally
\* returns; a panic in drop propagates as a panic of the call; during unwinding
\* the call stays panicked, and a second panic while unwinding aborts.
ScopeExit ==
    /\ pc \in {"teardown", "unwind"}
    /\ drop_pc \in {"done", "panicked"}
    /\ pc' = IF drop_pc = "done"
             THEN (IF pc = "teardown" THEN "returned" ELSE "panicked")
             ELSE (IF pc = "teardown" THEN "panicked" ELSE "aborted")
    /\ rx_alive' = FALSE
    /\ UNCHANGED <<inputs, m, img_buf, it, counter, last, progress, pixel_of,
                   writes, res_chan, pool>>

(***************************************************************************)
(* lib.rs: blur_async                                                      *)
(***************************************************************************)
InitAsync ==
    /\ radius \in (0 .. MaxRadius) \cup {WrapRadius}
    /\ sigma \in SigmaSet
    /\ n_threads \in 0 .. MaxThreads
    /\ original_img \in AsyncImages
    /\ overflow_checks \in BOOLEAN
    /\ pc = "start"
    /\ Blank

\* lib.rs 231-247: the output raster, the kernel, the result channel, the pool
OrchStart ==
    /\ pc = "start"
    /\ LET kernel == get_gaussian_matrix(radius, sigma, overflow_checks)
           cs     == Coords(original_img.width, original_img.height)
       IN  IF ~kernel.ok
           THEN /\ pc' = "panicked"
                /\ UNCHANGED <<m, img_buf, writes, pixel_of, chan, pool_tx, jobq,
                               mutex, wpc, wjob, handle>>
           ELSE /\ pc' = "submit"
                /\ m' = kernel
                /\ img_buf' = NewImageBuffer(original_img.width, original_img.height)
                /\ writes' = [c \in cs |-> 0]
                /\ pixel_of' = [c \in cs |->
                                  calculate_new_pixel(c[1], c[2], kernel, original_img)]
                /\ res_chan' = <<>>
                /\ rx_alive' = TRUE
                /\ PoolNew(n_threads)
    /\ UNCHANGED <<inputs, it, counter, last, progress, drop_pc,
                   drop_i, kinds, taken, finished, at_close>>

\* lib.rs 249-258: one iteration of the loop over enumerate_pixels, which
\* submits the job of one coordinate
OrchSubmit ==
    /\ pc = "submit"
    /\ \E panicked \in BOOLEAN :
          /\ LET c == PixelAt(it, original_img.width)
             IN  Execute([id |-> it + 1, kind |-> "pixel", x |-> c[1], y |-> c[2]],
                         panicked)
          /\ IF panicked
             THEN pc' = "unwind" /\ it' = it
             ELSE /\ it' = it + 1
                  /\ pc' = IF it + 1 = NPixels THEN "collect" ELSE "submit"
    /\ UNCHANGED <<inputs, m, img_buf, counter, last, progress, pixel_of, writes,
                   chan, pool_tx, mutex, wpc, wjob, handle, drop_pc,
                   drop_i, at_close>>

\* A collection loop that prints whenever percent is a multiple of 10, without
\* comparing it with the last value printed.
OrchCollectWithoutLast ==
    /\ pc = "collect"
    /\ res_chan # <<>>
    /\ LET res     == Head(res_chan)
           c       == <<res[1], res[2]>>
           exit    == ExitTest(counter + 1, original_img.width, original_img.height,
                               overflow_checks)
           percent == Percent(counter + 1, original_img.width, original_img.height)
       IN  /\ img_buf' = [img_buf EXCEPT !.px[c] = res[3]]
           /\ writes' = [writes EXCEPT ![c] = @ + 1]
           /\ counter' = counter + 1
           /\ IF exit = "panic"
              THEN pc' = "unwind" /\ UNCHANGED <<last, progress>>
              ELSE IF exit = "break"
              THEN pc' = "teardown" /\ UNCHANGED <<last, progress>>
              ELSE /\ pc' = pc
                   /\ IF percent % 10 = 0
                      THEN /\ progress' = Append(progress, percent)
                           /\ last' = percent
                      ELSE UNCHANGED <<last, progress>>
    /\ res_chan' = Tail(res_chan)
    /\ UNCHANGED <<inputs, m, it, pixel_of, rx_alive, pool>>

\* A collection loop that stops one result short and drops the receiver there.
OrchCollectShortAndClosing ==
    /\ pc = "collect"
    /\ res_chan # <<>>
    /\ LET res     == Head(res_chan)
           c       == <<res[1], res[2]>>
           exit    == ExitTest(counter + 2, original_img.width, original_img.height,
                               overflow_checks)
           percent == Percent(counter + 1, original_img.width, original_img.height)
       IN  /\ img_buf' = [img_buf EXCEPT !.px[c] = res[3]]
           /\ writes' = [writes EXCEPT ![c] = @ + 1]
           /\ counter' = counter + 1
           /\ rx_alive' = (exit # "break")
           /\ IF exit = "panic"
              THEN pc' = "unwind" /\ UNCHANGED <<last, progress>>
              ELSE IF exit = "break"
              THEN pc' = "teardown" /\ UNCHANGED <<last, progress>>
              ELSE /\ pc' = pc
                   /\ IF percent % 10 = 0 /\ percent # last
                      THEN /\ progress' = Append(progress, percent)
                           /\ last' = percent
                      ELSE UNCHANGED <<last, progress>>
    /\ res_chan' = Tail(res_chan)
    /\ UNCHANGED <<inputs, m, it, pixel_of, pool>>

\* lib.rs 264-281: one iteration of `while let Ok(res) = rx.recv()`.  recv blocks
\* while the channel is empty; it cannot fail, since the caller's own tx lives
\* to the end of the call.  The result is stored and counter incremented, then
\* compared with width * height; if the loop goes on, percent is computed and
\* perhaps printed.
OrchCollect ==
    /\ pc = "collect"
    /\ res_chan # <<>>
    /\ LET res     == Head(res_chan)
           c       == <<res[1], res[2]>>
           exit    == ExitTest(counter + 1, original_img.width, original_img.height,
                               overflow_checks)
           percent == Percent(counter + 1, original_img.width, original_img.height)
       IN  /\ img_buf' = [img_buf EXCEPT !.px[c] = res[3]]
           /\ writes' = [writes EXCEPT ![c] = @ + 1]
           /\ counter' = counter + 1
           /\ IF exit = "panic"
              THEN pc' = "unwind" /\ UNCHANGED <<last, progress>>
              ELSE IF exit = "break"
              THEN pc' = "teardown" /\ UNCHANGED <<last, progress>>
              ELSE /\ pc' = pc
                   /\ IF percent % 10 = 0 /\ percent # last
                      THEN /\ progress' = Append(progress, percent)
                           /\ last' = percent
                      ELSE UNCHANGED <<last, progress>>
    /\ res_chan' = Tail(res_chan)
    /\ UNCHANGED <<inputs, m, it, pixel_of, rx_alive, pool>>

Worker(w) == WLock(w) \/ WRecv(w) \/ WRun(w)
Teardown == DropClose \/ DropTake \/ DropJoin \/ DropReturn \/ ScopeExit

NextAsync ==
    \/ OrchStart \/ OrchSubmit \/ OrchCollect
    \/ Teardown
    \/ \E w \in 1 .. MaxThreads : Worker(w)

SpecAsync == InitAsync /\ [][NextAsync]_vars

\* Every thread that can take a step eventually takes one.  Weak fairness is all
\* the Mutex is asked for: it promises no order among the threads waiting for it.
FairAsync ==
    /\ SpecAsync
    /\ WF_vars(OrchStart \/ OrchSubmit \/ OrchCollect \/ Teardown)
    /\ \A w \in 1 .. MaxThreads : WF_vars(Worker(w))

(***************************************************************************)
(* The pool under any client: a thread that owns a ThreadPool, calls       *)
(* execute some number of times with closures that return or panic, and    *)
(* then lets the pool go out of scope.                                     *)
(***************************************************************************)
InitPool ==
    /\ radius = 0
    /\ sigma = Sigma1
    /\ n_threads \in 1 .. MaxThreads
    /\ original_img = TestImage(1, 1)
    /\ overflow_checks = FALSE
    /\ pc = "client"
    /\ m = NoKernel
    /\ img_buf = NewImageBuffer(0, 0)
    /\ it = 0
    /\ counter = 0
    /\ last = 0
    /\ progress = <<>>
    /\ res_chan = <<>>
    /\ rx_alive = FALSE
    /\ pool_tx = TRUE
    /\ jobq = <<>>
    /\ mutex = 0
    /\ wpc = [w \in 1 .. n_threads |-> "idle"]
    /\ wjob = [w \in 1 .. n_threads |-> NoJob]
    /\ handle = [w \in 1 .. n_threads |-> TRUE]
    /\ drop_pc = "none"
    /\ drop_i = 0
    /\ pixel_of = <<>>
    /\ kinds = <<>>
    /\ taken = <<>>
    /\ finished = <<>>
    /\ writes = <<>>
    /\ at_close = NotClosed

\* pool.execute(Box::new(...)) by the client
ClientExecute ==
    /\ pc = "client"
    /\ it < MaxJobs
    /\ \E kind \in {"ok", "panic"}, panicked \in BOOLEAN :
          /\ Execute([id |-> it + 1, kind |-> kind, x |-> 0, y |-> 0], panicked)
          /\ IF panicked
             THEN pc' = "unwind" /\ it' = it
             ELSE pc' = pc /\ it' = it + 1
    /\ UNCHANGED <<inputs, m, img_buf, counter, last, progress, pixel_of, writes,
                   chan, pool_tx, mutex, wpc, wjob, handle, drop_pc,
                   drop_i, at_close>>

\* the pool goes out of scope
ClientDrop ==
    /\ pc = "client"
    /\ pc' = "teardown"
    /\ UNCHANGED <<inputs, m, img_buf, it, counter, last, progress, pixel_of,
                   writes, chan, pool>>

NextPool ==
    \/ ClientExecute \/ ClientDrop
    \/ Teardown
    \/ \E w \in 1 .. MaxThreads : Worker(w)

SpecPool == InitPool /\ [][NextPool]_vars

FairPool ==
    /\ SpecPool
    /\ WF_vars(Teardown)
    /\ \A w \in 1 .. MaxThreads : WF_vars(Worker(w))

(***************************************************************************)
(* The collection loop of blur_async on longer rasters.  The percentages   *)
(* it prints depend on the count of results only, so these runs start      *)
(* where the submit loop has ended and the one worker has already run      *)
(* every job: all width * height results wait in the channel, in           *)
(* submission order.                                                       *)
(***************************************************************************)
LongRow == 120

\* one-row rasters: of 1, 7, 10 and 20 pixels, and one of more than 100 pixels,
\* on which successive results give the same percent
RowImages == {TestImage(w, 1) : w \in {1, 7, 10, 20, LongRow}}

InitCollect ==
    /\ radius = 0
    /\ sigma = Sigma1
    /\ n_threads = 1
    /\ original_img \in RowImages
    /\ overflow_checks = FALSE
    /\ pc = "collect"
    /\ m = get_gaussian_matrix(radius, sigma, overflow_checks)
    /\ img_buf = NewImageBuffer(original_img.width, original_img.height)
    /\ it = NPixels
    /\ counter = 0
    /\ last = 0
    /\ progress = <<>>
    /\ pixel_of = [c \in AllCoordsOf(original_img) |->
                      calculate_new_pixel(c[1], c[2], m, original_img)]
    /\ res_chan = [n \in 1 .. NPixels |->
                     LET c == PixelAt(n - 1, original_img.width)
                     IN  <<c[1], c[2], pixel_of[c]>>]
    /\ rx_alive = TRUE
    /\ pool_tx = TRUE
    /\ jobq = <<>>
    /\ mutex = 0
    /\ wpc = [w \in 1 .. n_threads |-> "idle"]
    /\ wjob = [w \in 1 .. n_threads |-> NoJob]
    /\ handle = [w \in 1 .. n_threads |-> TRUE]
    /\ drop_pc = "none"
    /\ drop_i = 0
    /\ kinds = [n \in 1 .. NPixels |-> "pixel"]
    /\ taken = [n \in 1 .. NPixels |-> 1]
    /\ finished = [n \in 1 .. NPixels |-> 1]
    /\ writes = [c \in AllCoordsOf(original_img) |-> 0]
    /\ at_close = NotClosed

\* the worker has no job left to run: it waits in recv until the intake closes
NextCollect ==
    \/ OrchCollect
    \/ Teardown
    \/ \E w \in 1 .. MaxThreads : WLock(w) \/ WRecv(w)

SpecCollect == InitCollect /\ [][NextCollect]_vars

(***************************************************************************)
(* The collection loop of blur_async on rasters of any u32 width and       *)
(* height, whose count of pixels may pass 2^32.  As in the runs on long    *)
(* rows, the submit loop has ended and the one worker has run every job,   *)
(* so all width * height results wait in the channel in submission order.  *)
(* What there is one of per pixel (the rasters' pixels, the results in the *)
(* channel, the jobs' records) is kept for the first MaxCount pixels in    *)
(* enumeration order, which is all of them for a raster of MaxCount pixels *)
(* or fewer; `it` counts those jobs.  The loop goes as far as the results  *)
(* kept.                                                                   *)
(***************************************************************************)
MaxCount == 40

\* widths and heights: small rasters, and rasters of 2^32 pixels and more
\* (641 * 6700417 = 2^32 + 1, 65537 * 65536 = 2^32 + 2^16, 65536^2 = 2^32)
Dimensions ==
    {<<1, 1>>, <<3, 2>>, <<7, 5>>, <<641, 6700417>>, <<65537, 65536>>,
     <<65536, 65536>>}

\* how many pixels of a width x height raster are kept: all, or MaxCount
Kept(width, height) ==
    IF BCmp(n_calculations(width, height), BFromInt(MaxCount)) > 0
    THEN MaxCount
    ELSE width * height

\* the coordinates of the pixels kept: the first ones enumerate_pixels yields
KeptCoords(width, height) ==
    {PixelAt(n, width) : n \in 0 .. Kept(width, height) - 1}

\* TestImage(width, height), by the pixels kept
KeptImage(width, height) ==
    [width |-> width, height |-> height,
     px |-> [c \in KeptCoords(width, height) |->
               Palette[((c[1] + 2 * c[2]) % Len(Palette)) + 1]]]

InitCount ==
    /\ radius = 0
    /\ sigma = Sigma1
    /\ n_threads = 1
    /\ \E d \in Dimensions : original_img = KeptImage(d[1], d[2])
    /\ overflow_checks \in BOOLEAN
    /\ pc = "collect"
    /\ m = get_gaussian_matrix(radius, sigma, overflow_checks)
    /\ img_buf = [width |-> original_img.width, height |-> original_img.height,
                  px |-> [c \in DOMAIN original_img.px |-> <<0, 0, 0>>]]
    /\ it = Kept(original_img.width, original_img.height)
    /\ counter = 0
    /\ last = 0
    /\ progress = <<>>
    /\ pixel_of = [c \in DOMAIN original_img.px |->
                      calculate_new_pixel(c[1], c[2], m, original_img)]
    /\ res_chan = [n \in 1 .. Kept(original_img.width, original_img.height) |->
                     LET c == PixelAt(n - 1, original_img.width)
                     IN  <<c[1], c[2], pixel_of[c]>>]
    /\ rx_alive = TRUE
    /\ pool_tx = TRUE
    /\ jobq = <<>>
    /\ mutex = 0
    /\ wpc = [w \in 1 .. n_threads |-> "idle"]
    /\ wjob = [w \in 1 .. n_threads |-> NoJob]
    /\ handle = [w \in 1 .. n_threads |-> TRUE]
    /\ drop_pc = "none"
    /\ drop_i = 0
    /\ kinds = [n \in 1 .. Len(res_chan) |-> "pixel"]
    /\ taken = [n \in 1 .. Len(res_chan) |-> 1]
    /\ finished = [n \in 1 .. Len(res_chan) |-> 1]
    /\ writes = [c \in DOMAIN original_img.px |-> 0]
    /\ at_close = NotClosed

\* the loop is left by `break` or by the panic: the pool is dropped, then the
\* result channel, and the call returns img_buf or goes on unwinding.  The
\* worker has no job left to run: it waits in recv until the intake closes.
NextCount ==
    \/ OrchCollect
    \/ Teardown
    \/ \E w \in 1 .. MaxThreads : WLock(w) \/ WRecv(w)

SpecCount == InitCount /\ [][NextCount]_vars

(***************************************************************************)
(* blur_sync on the small rasters and on rasters with a width or a height  *)
(* of 2^31 and more.  Of such a raster, source and output, the pixels held *)
(* are those within MaxRadius of the origin; the loop is followed over the *)
(* leading pixels of the enumeration that are held.                        *)
(***************************************************************************)
WideImage(width32, height32) ==
    [width32 |-> width32, height32 |-> height32,
     px |-> [c \in {d \in (0 .. MaxRadius) \X (0 .. MaxRadius) :
                       /\ BCmp(BFromInt(d[1]), width32) < 0
                       /\ BCmp(BFromInt(d[2]), height32) < 0} |->
               Palette[((c[1] + 2 * c[2]) % Len(Palette)) + 1]]]

\* rasters of 2^31 x 1, 1 x 2^31 and (2^32 - 1) x 2 pixels
WideImages ==
    {WideImage(BShl(BFromInt(1), U32Bits - 1), BFromInt(1)),
     WideImage(BFromInt(1), BShl(BFromInt(1), U32Bits - 1)),
     WideImage(BSub(BShl(BFromInt(1), U32Bits), BFromInt(1)), BFromInt(2))}

\* ImageBuffer::new(original_img.width(), original_img.height()): a raster of
\* the source's dimensions, every channel zero, held as the source is
NewImageBufferOf(img) ==
    IF "width32" \in DOMAIN img
    THEN [width32 |-> img.width32, height32 |-> img.height32,
          px |-> [c \in DOMAIN img.px |-> <<0, 0, 0>>]]
    ELSE NewImageBuffer(img.width, img.height)

\* the n-th coordinate (from 0) that enumerate_pixels_mut yields, the width
\* taken as limbs
PixelAtOf(n, img) ==
    IF BCmp(BFromInt(n), WidthOf(img)) < 0 THEN <<n, 0>>
    ELSE PixelAt(n, BToInt(WidthOf(img)))

\* how many leading pixels of the enumeration are held
Visits(img) ==
    LET k == Cardinality(DOMAIN img.px)
    IN  CHOOSE n \in 0 .. k :
           /\ \A j \in 0 .. n - 1 : PixelAtOf(j, img) \in DOMAIN img.px
           /\ n = k \/ PixelAtOf(n, img) \notin DOMAIN img.px

InitPixel ==
    /\ radius \in (0 .. MaxRadius) \cup {WrapRadius}
    /\ sigma \in SigmaSet
    /\ n_threads = 0
    /\ original_img \in Images \cup WideImages
    /\ overflow_checks \in BOOLEAN
    /\ pc = "pixel_start"
    /\ Blank

\* lib.rs 314-322: the kernel, then the output raster
PixelKernel ==
    /\ pc = "pixel_start"
    /\ LET kernel == get_gaussian_matrix(radius, sigma, overflow_checks)
       IN  IF ~kernel.ok
           THEN /\ pc' = "panicked"
                /\ UNCHANGED <<m, img_buf, writes>>
           ELSE /\ pc' = "pixel_loop"
                /\ m' = kernel
                /\ img_buf' = NewImageBufferOf(original_img)
                /\ writes' = [c \in DOMAIN original_img.px |-> 0]
    /\ UNCHANGED <<inputs, it, counter, last, progress, pixel_of, pool, chan>>

\* lib.rs 324-326: one iteration of the loop over enumerate_pixels_mut,
\* *pixel = calculate_new_pixel(x as i32, y as i32, &m, &original_img)
PixelCall ==
    /\ pc = "pixel_loop"
    /\ it < Visits(original_img)
    /\ LET c == PixelAtOf(it, original_img)
       IN  /\ img_buf' = [img_buf EXCEPT !.px[c] =
                             calculate_new_pixel(c[1], c[2], m, original_img)]
           /\ writes' = [writes EXCEPT ![c] = @ + 1]
    /\ it' = it + 1
    /\ UNCHANGED <<inputs, pc, m, counter, last, progress, pixel_of, pool, chan>>

\* lib.rs 328: every pixel of the raster is visited, img_buf is returned
PixelReturn ==
    /\ pc = "pixel_loop"
    /\ BFromInt(it) = BMul(WidthOf(original_img), HeightOf(original_img))
    /\ pc' = "pixel_returned"
    /\ UNCHANGED <<inputs, m, img_buf, it, counter, last, progress, pixel_of,
                   writes, pool, chan>>

NextPixel == PixelKernel \/ PixelCall \/ PixelReturn

SpecPixel == InitPixel /\ [][NextPixel]_vars

(***************************************************************************)
(* Properties                                                              *)
(***************************************************************************)
AllCoords == Coords(original_img.width, original_img.height)
KernelBuilt == get_gaussian_matrix(radius, sigma, overflow_checks).ok
AllJoined == \A w \in Workers : wpc[w] = "done" /\ ~handle[w] /\ drop_i > w
SigmaPositive == sigma.k = "num" /\ ~IsZero(sigma)
NoPanicJob == \A id \in 1 .. Len(kinds) : kinds[id] # "panic"

\* C1 (SpecCount): whenever blur_async returns, the raster it returns equals,
\* pixel for pixel, the raster blur_sync returns for the same radius, sigma and
\* source.
C1_AsyncEqualsSync ==
    pc = "returned" =>
        LET s == blur_sync(radius, sigma, original_img, overflow_checks)
        IN  s.ok /\ img_buf = s.img

\* C2 (SpecCount): where blur_async returns, the output raster has the source's
\* width and height, exactly width * height results were received (none is left
\* in the channel), every coordinate was written and holds calculate_new_pixel
\* of that coordinate.
C2_ReturnsComplete ==
    pc = "returned" =>
        /\ img_buf.width = original_img.width
        /\ img_buf.height = original_img.height
        /\ DOMAIN img_buf.px = DOMAIN original_img.px
        /\ BFromInt(counter) = n_calculations(original_img.width, original_img.height)
        /\ res_chan = <<>>
        /\ \A c \in DOMAIN img_buf.px :
              /\ writes[c] >= 1
              /\ img_buf.px[c] = calculate_new_pixel(c[1], c[2], m, original_img)

\* C3 (FairAsync): for every source and every n_threads >= 1, under fair
\* scheduling, blur_async eventually returns with every worker joined; no result
\* is received before every job is submitted, and the collection loop ends with
\* the expected count while the result channel is still open.
C3_EventuallyReturns ==
    /\ [](counter > 0 => it = NPixels)
    /\ [](pc = "teardown" => counter = NPixels /\ rx_alive)
    /\ (pc = "start" /\ n_threads >= 1) ~> (pc = "returned" /\ AllJoined)

\* The same, for the calls whose kernel side 2 * radius + 1 fits its u8 or whose
\* build wraps it silently.
ReturnsOnceKernelBuilt ==
    /\ [](counter > 0 => it = NPixels)
    /\ [](pc = "teardown" => counter = NPixels /\ rx_alive)
    /\ (pc = "start" /\ n_threads >= 1 /\ KernelBuilt) ~> (pc = "returned" /\ AllJoined)

\* C4 (SpecPool): where Drop for ThreadPool returns, every job that execute
\* queued has been run to its end exactly once, the queue is empty, and every
\* worker thread has ended.
C4_DropDrains ==
    drop_pc = "done" =>
        /\ jobq = <<>>
        /\ \A id \in 1 .. Len(kinds) : taken[id] = 1 /\ finished[id] = 1
        /\ \A w \in Workers : wpc[w] = "done"

\* Drop returned, and it had found jobs still queued when it closed the intake
C4_Witness ==
    /\ drop_pc = "done"
    /\ Len(kinds) >= 2
    /\ at_close.queued >= 1
    /\ \A id \in 1 .. Len(kinds) : finished[id] = 1

\* C5 (FairPool): Drop closes the intake before it takes any worker's handle, a
\* handle once taken is never joined again, and once Drop has closed the intake
\* of a pool whose jobs all terminate, by returning or by panicking, every
\* worker ends, is joined, and Drop returns.
C5_TeardownTerminates ==
    /\ []((\E w \in Workers : ~handle[w]) => ~pool_tx)
    /\ [][\A w \in Workers : handle'[w] => handle[w]]_vars
    /\ (drop_pc = "join") ~> (drop_pc = "done" /\ AllJoined)

\* C6 (SpecPool): a job that panics does not end the worker thread that runs
\* it, and the teardown of the pool completes normally.
C6_PanicIsolated ==
    /\ \A w \in Workers : wpc[w] # "panicked"
    /\ drop_pc # "panicked"

\* C7 (SpecSync): for every radius of the u8 range get_gaussian_matrix returns,
\* and the kernel it returns is square of side 2 * radius + 1 with cell (i, k)
\* equal to gaussian(i - radius, k - radius, sigma).
C7_KernelShape ==
    /\ pc # "panicked"
    /\ (pc = "sync_loop" /\ it = 0) =>
          /\ m.rows = 2 * radius + 1
          /\ m.cols = 2 * radius + 1
          /\ \A i, k \in 0 .. 2 * radius :
                m.cells[<<i, k>>] = gaussian(i - radius, k - radius, sigma)

\* The kernel offsets (dx, dy) of a kernel of half-width r whose sample
\* (x + dx, y + dy) lies in the raster, in the order the loops visit them;
\* width and height are limbs.
TapsInside(x, y, r, width, height) ==
    LET side == 2 * r + 1
        all  == [n \in 1 .. side * side |->
                   <<((n - 1) \div side) - r, ((n - 1) % side) - r>>]
        In(d) == /\ 0 <= x + d[1] /\ BCmp(BFromInt(x + d[1]), width) < 0
                 /\ 0 <= y + d[2] /\ BCmp(BFromInt(y + d[2]), height) < 0
    IN  SelectSeq(all, In)

\* the sum of the first n terms of a sequence of f64, from 0.0, left to right
RECURSIVE SumTo(_, _)
SumTo(terms, n) == IF n = 0 THEN Zero ELSE FAdd(SumTo(terms, n - 1), terms[n])

\* trunc(S / T) per channel over the offsets inside
WeightedMean(x, y, matrix, img) ==
    LET r    == matrix.rows \div 2
        taps == TapsInside(x, y, r, WidthOf(img), HeightOf(img))
        w(d) == matrix.cells[<<d[1] + r, d[2] + r>>]
        v(d) == img.px[<<x + d[1], y + d[2]>>]
        S(ch) == SumTo([n \in 1 .. Len(taps) |->
                          FMul(FFromInt(v(taps[n])[ch]), w(taps[n]))], Len(taps))
        T    == SumTo([n \in 1 .. Len(taps) |-> w(taps[n])], Len(taps))
    IN  <<AsU8(FDiv(S(1), T)), AsU8(FDiv(S(2), T)), AsU8(FDiv(S(3), T))>>

\* C8 (SpecPixel): the pixel blur_sync stores for a coordinate of the raster,
\* the one calculate_new_pixel returns, is, per channel, trunc(S / T) with S and T summed over exactly the
\* kernel offsets whose sample lies in the raster.
C8_SkipsOutOfBounds ==
    \A c \in DOMAIN writes :
        writes[c] > 0 =>
            img_buf.px[c] = WeightedMean(c[1], c[2], m, original_img)

\* C9 (SpecSync): when only the centre tap is in bounds (radius 0, or a 1 x 1
\* source with a radius of 1 or more) and sigma > 0, the output pixel equals the
\* source pixel.
C9_SingleTapIdentity ==
    (/\ pc = "sync_loop" /\ it > 0
     /\ SigmaPositive
     /\ (radius = 0 \/ (NPixels = 1 /\ radius >= 1))) =>
        LET c == PixelAt(it - 1, original_img.width)
        IN  img_buf.px[c] = original_img.px[c]

\* C10 (FairAsync): with n_threads = 0 no job is ever queued or run, no worker
\* exists, the call never reaches its collection loop nor returns a raster, and
\* it eventually ends in a panic of the calling thread.
C10_ZeroThreadsFailsFast ==
    /\ [](n_threads = 0 =>
            /\ jobq = <<>> /\ kinds = <<>> /\ res_chan = <<>>
            /\ DOMAIN wpc = {}
            /\ pc \notin {"collect", "teardown", "returned"})
    /\ (n_threads = 0) ~> (pc = "panicked")

\* a call with no worker ended in a panic raised by its first execute
C10_Witness ==
    /\ n_threads = 0
    /\ pc = "panicked"
    /\ m.ok
    /\ it = 0
    /\ drop_pc = "done"

\* C11 (SpecAsync): with sigma <= 0 the call is refused before any job is
\* submitted or any pixel computed, and no raster is returned.
C11_SigmaRejected ==
    ~SigmaPositive =>
        /\ kinds = <<>>
        /\ it = 0
        /\ writes \in {<<>>, [c \in AllCoords |-> 0]}
        /\ pc # "returned"

\* how many jobs queued, jobs running and results in flight target coordinate c
Pending(c) ==
    Cardinality({i \in DOMAIN jobq : <<jobq[i].x, jobq[i].y>> = c})
    + Cardinality({w \in DOMAIN wjob : wjob[w].kind = "pixel"
                                        /\ <<wjob[w].x, wjob[w].y>> = c})
    + Cardinality({i \in DOMAIN res_chan : <<res_chan[i][1], res_chan[i][2]>> = c})

\* the submit loop has made the job of coordinate c
Submitted(c) == \E n \in 0 .. it - 1 : PixelAt(n, original_img.width) = c

\* C12 (SpecCount): during a run of blur_async one job exists per coordinate
\* visited by the submit loop and none for the others, so that a coordinate has
\* its job or its result pending, or has been written once, never both and
\* never twice; a result in flight and a written pixel carry the value of the
\* job of their coordinate; at return every coordinate has been written exactly
\* once; and the raster changes only in a step of the collection loop.
C12_WrittenOnce ==
    /\ [](pc \in {"submit", "collect", "teardown", "returned"} =>
            /\ \A c \in DOMAIN writes :
                  /\ Pending(c) + writes[c] = (IF Submitted(c) THEN 1 ELSE 0)
                  /\ writes[c] = 1 => img_buf.px[c] = pixel_of[c]
            /\ \A i \in DOMAIN res_chan :
                  res_chan[i][3] = pixel_of[<<res_chan[i][1], res_chan[i][2]>>]
            /\ pc = "returned" => \A c \in DOMAIN writes : writes[c] = 1)
    /\ [][(pc \in {"submit", "collect", "teardown"} /\ img_buf' # img_buf) =>
             (pc = "collect" /\ counter' = counter + 1
                /\ res_chan' = Tail(res_chan))]_vars

Queued(id) == Cardinality({i \in DOMAIN jobq : jobq[i].id = id})
RunningJob(id) == Cardinality({w \in DOMAIN wjob : wjob[w].id = id})

\* C13 (SpecPool): a job execute has queued is either still in the queue, once,
\* or has been dequeued, once: it is never held by two workers, and it is run
\* to its end at most once, by the worker that dequeued it.
C13_DeliveredOnce ==
    \A id \in 1 .. Len(kinds) :
        /\ Queued(id) + taken[id] = 1
        /\ RunningJob(id) + finished[id] <= taken[id]

\* two workers run two different jobs while a third job waits in the queue
C13_Witness ==
    /\ jobq # <<>>
    /\ \E v, w \in Workers :
          /\ v # w
          /\ wpc[v] = "run" /\ wpc[w] = "run"
          /\ wjob[v].id # wjob[w].id
          /\ taken[wjob[v].id] = 1 /\ taken[wjob[w].id] = 1

\* C14 (SpecPool): while every job queued so far returns normally, from the
\* return of ThreadPool::new until Drop begins all n_workers threads are alive,
\* each waiting for a job (for the mutex or in recv) or running exactly one; and
\* a worker has ended only if the intake is closed and the queue empty.
C14_WorkersAlive ==
    NoPanicJob =>
        /\ DOMAIN wpc = 1 .. n_threads
        /\ drop_pc = "none" =>
              /\ pool_tx
              /\ \A w \in Workers :
                    /\ wpc[w] \in {"idle", "recv", "run"}
                    /\ wpc[w] = "run" <=> wjob[w] # NoJob
                    /\ wpc[w] = "recv" <=> mutex = w
        /\ \A w \in Workers : wpc[w] = "done" => (~pool_tx /\ jobq = <<>>)
        /\ \A w \in Workers : wpc[w] # "panicked"

\* before Drop, one worker runs a job while another, which has already run one
\* to its end, waits in recv
C14_Witness ==
    /\ drop_pc = "none"
    /\ NoPanicJob
    /\ \E id \in 1 .. Len(kinds) : finished[id] = 1
    /\ \E v, w \in Workers : wpc[v] = "run" /\ wpc[w] = "recv"

\* C15 (SpecCollect): the percentages the collection loop prints are multiples
\* of 10 in strictly increasing order, so that none is printed twice.
C15_ProgressOnce ==
    /\ \A i \in DOMAIN progress : progress[i] % 10 = 0
    /\ \A i, j \in DOMAIN progress : i < j => progress[i] < progress[j]

\* on a raster of more than 100 pixels, the result just received gives the same
\* percent, a multiple of 10, as the one before it, and that percent stands
\* once in what was printed
C15_Witness ==
    /\ NPixels > 100
    /\ counter >= 2
    /\ pc = "collect"
    /\ LET percent == (counter * 100) \div NPixels
       IN  /\ percent = ((counter - 1) * 100) \div NPixels
           /\ percent % 10 = 0
           /\ Cardinality({i \in DOMAIN progress : progress[i] = percent}) = 1

\* C16 (SpecCollect): once the results received make percent =
\* received * 100 / (width * height) reach or pass a multiple of 10 between 10
\* and 100, a notification for that multiple has been printed.
C16_EveryThresholdPrinted ==
    \A k \in 1 .. 10 :
        (counter * 100) \div NPixels >= 10 * k =>
            \E i \in DOMAIN progress : progress[i] = 10 * k

\* C17 (SpecSync): calculate_new_pixel is called with coordinates of the raster
\* only, the centre tap of the kernel samples that very coordinate, and the
\* total weight it divides by is a positive number.
C17_TotalWeightPositive ==
    (pc = "sync_loop" /\ it > 0) =>
        LET c     == PixelAt(it - 1, original_img.width)
            r     == m.rows \div 2
            total == Accumulate(c[1], c[2], m, original_img, m.rows * m.cols).total
        IN  /\ c \in AllCoords
            /\ <<r, r>> \in DOMAIN m.cells
            /\ total.k = "num" /\ ~IsZero(total)

\* C18 (SpecAsync): in a run of blur_async with n_threads >= 1 the result
\* receiver is open from the creation of the channel to the end of the pool's
\* teardown, hence whenever a submitted job has yet to finish its send; and no
\* worker ever panics on a failed send.
C18_ReceiverOutlivesJobs ==
    n_threads >= 1 =>
        /\ pc \in {"submit", "collect", "teardown"} => rx_alive
        /\ (\E id \in 1 .. Len(kinds) : finished[id] = 0) => rx_alive
        /\ \A w \in DOMAIN wpc : wpc[w] # "panicked"

\* the pool is being torn down, a worker has not ended yet, every job of the
\* call has sent its result, and the receiver is still open
C18_Witness ==
    /\ n_threads >= 2
    /\ NPixels >= 2
    /\ drop_pc = "join"
    /\ \E w \in Workers : wpc[w] # "done"
    /\ \A id \in 1 .. Len(kinds) : finished[id] = 1
    /\ Len(kinds) = NPixels
    /\ rx_alive

\* C19 (SpecPool): the mutex around the job receiver is held by a worker exactly
\* while that worker is in recv, never while it runs a job; so a running job
\* keeps no waiting worker from taking the mutex when it is free, nor the
\* worker in recv from dequeuing the next job.
C19_GuardReleasedBeforeJob ==
    /\ \A w \in Workers : wpc[w] = "recv" <=> mutex = w
    /\ \A w \in Workers : wpc[w] = "run" => mutex # w
    /\ \A v \in Workers :
          (wpc[v] = "idle" /\ \A u \in Workers : wpc[u] # "recv") => ENABLED WLock(v)
    /\ \A v \in Workers :
          (wpc[v] = "recv" /\ jobq # <<>>) => ENABLED WRecv(v)

\* two workers run a job each at the same time, and the mutex is free
C19_Witness ==
    /\ pool_tx
    /\ mutex = 0
    /\ Cardinality({w \in Workers : wpc[w] = "run"}) >= 2

\* C20 (SpecCount): for every width and height of the u32 range the count the
\* collection loop compares its counter with is the product width * height,
\* computed without overflow, so that the loop is left only once width * height
\* results have been received.
C20_ExpectedCountExact ==
    /\ pc \notin {"unwind", "panicked", "aborted"}
    /\ pc \in {"teardown", "returned"} =>
          BFromInt(counter) = n_calculations(original_img.width, original_img.height)
====
